---- MODULE Spec2Model ----
(***************************************************************************)
(* Model of run_ml_neb.py: the module-level settings and Espresso          *)
(* calculator, optimize_endpoints, run_main_mlneb, run_single_point_test   *)
(* and the __main__ dispatch.                                              *)
(*                                                                         *)
(* Forces and thresholds are integers in tenths of eV/A (0.1 -> 1).        *)
(* A Structure is abstracted to its residual maximum per-atom force norm.  *)
(* A trajectory file is the sequence of its snapshots; <<>> is a file that *)
(* does not exist (or holds no snapshot), which read() cannot load.        *)
(* Python objects live in a heap so that aliasing and copying are visible. *)
(***************************************************************************)
EXTENDS Integers, Sequences, FiniteSets, TLC

\* ---------------------------------------------------------------- bounds
MaxForce == 3
MaxTraj == 3
MaxEvals == 4
MaxFailAt == 2
MaxImages == 5

\* ------------------------------------------------- Part 1: global settings
UNOPTIMIZED_INITIAL == "initial.traj"
UNOPTIMIZED_FINAL == "final.traj"
OPTIMIZE_FMAX == 1
OPTIMIZED_INITIAL == "initial.traj"
OPTIMIZED_FINAL == "final.traj"
NEB_FMAX == 1
TRAJECTORY_FILE_Clobber == "initial.traj"
TRAJECTORY_FILE == "mlneb_final.traj"
K_SPRING == 1

FileNames ==
  {UNOPTIMIZED_INITIAL, UNOPTIMIZED_FINAL, OPTIMIZED_INITIAL, OPTIMIZED_FINAL,
   TRAJECTORY_FILE}

\* --------------------------------------- Part 2: calculator configuration
PSEUDO_DIR == "/root/pseudo/"
qe_input_data == [pseudo_dir |-> PSEUDO_DIR, prefix |-> "qe_calc", outdir |-> "./out/"]

command_NoMpi == <<"pw.x", "-in", "PREFIX.pwi", ">", "PREFIX.pwo">>
command == <<"mpirun", "-np", "12", "pw.x", "-in", "PREFIX.pwi", ">", "PREFIX.pwo">>

\* The heap after the module body has run: object 1 of each kind is the
\* module-level one.  ase_calculator refers to its input_data and to its
\* results cache; energy 0 means "nothing cached".
ASE_CALCULATOR == 1
InitHeap ==
  [calc    |-> << [command |-> command, input_data |-> 1, results |-> 1] >>,
   input   |-> << qe_input_data >>,
   results |-> << [energy |-> 0] >>]

\* copy.copy: a new calculator object that still refers to the same
\* input_data and results objects.
ShallowCopy(h, c) ==
  [h EXCEPT !.calc = Append(@, h.calc[c])]

\* copy.deepcopy: a new calculator object with its own copies of every
\* object reachable from it.
deepcopy(h, c) ==
  [calc    |-> Append(h.calc, [command    |-> h.calc[c].command,
                               input_data |-> Len(h.input) + 1,
                               results    |-> Len(h.results) + 1]),
   input   |-> Append(h.input, h.input[h.calc[c].input_data]),
   results |-> Append(h.results, h.results[h.calc[c].results])]

\* ------------------------------------------------------------- sys.argv
SCRIPT == <<"r", "u", "n">>
ArgTest == <<"t", "e", "s", "t">>
ArgTestUpper == <<"T", "E", "S", "T">>
ArgOther == <<"n", "e", "b">>
ArgvSet ==
  { <<SCRIPT>>, <<SCRIPT, ArgTest>>, <<SCRIPT, ArgTestUpper>>, <<SCRIPT, ArgOther>>,
    <<SCRIPT, ArgTest, ArgOther>> }

LowerChar(c) ==
  CASE c = "T" -> "t"
    [] c = "E" -> "e"
    [] c = "S" -> "s"
    [] c = "N" -> "n"
    [] c = "B" -> "b"
    [] OTHER   -> c

\* str.lower()
Lower(s) == [i \in 1..Len(s) |-> LowerChar(s[i])]

Stages == {"opt_initial", "opt_final", "neb", "test"}
Functions == {"optimize_endpoints", "run_main_mlneb", "run_single_point_test"}
ImageCounts == 1..MaxImages
Forces == 0..MaxForce

Min(a, b) == IF a < b THEN a ELSE b
Max(a, b) == IF a > b THEN a ELSE b
Last(s) == s[Len(s)]

VARIABLES
  entry,          \* how the module is used: run as a script or optimize_endpoints() called
  argv,           \* sys.argv
  N_IMAGES,       \* the image-count setting of Part 1
  pc,             \* position of the single thread of control
  files,          \* file name -> trajectory
  heap,           \* Python objects: calculators, input_data dicts, results dicts
  stageCalc,      \* stage -> calculator object handed to it (0: none)
  atoms,          \* the Structure the running optimizer holds
  nsteps,         \* steps the running optimizer has taken
  mlneb,          \* the MLNEB object
  relaxes,        \* Oracle: does a step lower the force it reports
  failAt,         \* Oracle: number of evaluations that succeed before one raises (-1: never raises)
  evals,          \* Oracle evaluations requested so far
  lastInvocation, \* what the backend was last handed
  out,            \* printed messages
  invoked,        \* function -> number of calls
  started,        \* stage -> number of starts
  failed,         \* stage -> an exception was raised in it
  completed,      \* stage -> it finished
  lastWrite       \* stage -> the energy it last cached in its calculator

vars ==
  <<entry, argv, N_IMAGES, pc, files, heap, stageCalc, atoms, nsteps, mlneb, relaxes,
    failAt, evals, lastInvocation, out, invoked, started, failed, completed,
    lastWrite>>

NoMlneb == [start |-> "", end |-> "", n_images |-> 0, k |-> 0, image |-> 0,
            initial |-> 0, final |-> 0]
NoInvocation == [command |-> <<>>, pseudo_dir |-> ""]

Init ==
  /\ entry \in {"__main__", "optimize_endpoints"}
  /\ argv \in ArgvSet
  /\ entry = "optimize_endpoints" => argv = <<SCRIPT>>
  /\ N_IMAGES \in ImageCounts
  /\ pc = "start"
  /\ \E i, f \in {<<>>} \cup {<<x>> : x \in Forces} :
       files = [n \in FileNames |->
                  IF n = UNOPTIMIZED_INITIAL THEN i
                  ELSE IF n = UNOPTIMIZED_FINAL THEN f
                  ELSE <<>>]
  /\ heap = InitHeap
  /\ stageCalc = [s \in Stages |-> 0]
  /\ atoms = 0
  /\ nsteps = 0
  /\ mlneb = NoMlneb
  /\ relaxes \in BOOLEAN
  /\ failAt \in -1..MaxFailAt
  /\ evals = 0
  /\ lastInvocation = NoInvocation
  /\ out = <<>>
  /\ invoked = [f \in Functions |-> 0]
  /\ started = [s \in Stages |-> 0]
  /\ failed = [s \in Stages |-> FALSE]
  /\ completed = [s \in Stages |-> FALSE]
  /\ lastWrite = [s \in Stages |-> 0]

\* ------------------------------------------------------------ the Oracle
\* The backend raises on the evaluation after failAt successful ones.
OracleRaises == failAt >= 0 /\ evals >= failAt

\* The energy a deterministic Oracle reports for a Structure (never 0).
Energy(f) == f + 1

\* What an evaluation through calculator c hands to the backend: the
\* calculator's command and the pseudo_dir of its input_data.
Invocation(h, c) ==
  [command    |-> h.calc[c].command,
   pseudo_dir |-> h.input[h.calc[c].input_data].pseudo_dir]

\* A successful evaluation caches its result in the calculator's results.
Evaluate(h, c, f) ==
  [h EXCEPT !.results[h.calc[c].results] = [energy |-> Energy(f)]]

Count(n) == Min(n + 1, MaxEvals)

\* Trajectory.write: append a snapshot (only the newest MaxTraj are kept).
WriteSnapshot(t, x) ==
  IF Len(t) < MaxTraj THEN Append(t, x) ELSE Append(Tail(t), x)

\* BFGS convergence test: maximum per-atom force norm within fmax.
Converged(f, fmax) == f <= fmax

\* ---------------------------------------- Part 3: optimize_endpoints
\* read(UNOPTIMIZED_x); set_calculator(copy.deepcopy(ase_calculator));
\* BFGS(atoms, trajectory=OPTIMIZED_x)   -- the trajectory is opened for writing.
OptimizeSetup(stage, unopt, opt, runpc) ==
  /\ started' = [started EXCEPT ![stage] = @ + 1]
  /\ IF files[unopt] = <<>>
       THEN /\ pc' = "unhandled"
            /\ failed' = [failed EXCEPT ![stage] = TRUE]
            /\ UNCHANGED <<atoms, nsteps, heap, stageCalc, files>>
       ELSE /\ atoms' = Last(files[unopt])
            /\ nsteps' = 0
            /\ heap' = deepcopy(heap, ASE_CALCULATOR)
            /\ stageCalc' = [stageCalc EXCEPT ![stage] = Len(heap.calc) + 1]
            /\ files' = [files EXCEPT ![opt] = <<>>]
            /\ pc' = runpc
            /\ UNCHANGED failed
  /\ UNCHANGED <<entry, argv, N_IMAGES, mlneb, relaxes, failAt, evals,
                 lastInvocation, out, invoked, completed, lastWrite>>

\* One iteration of optimizer.run(fmax=fmax, steps=steps); steps = -1 is
\* "no step limit given".  Each iteration asks the Oracle for the forces,
\* writes the Structure to the trajectory and stops when converged.
OptimizeRun(stage, opt, fmax, steps, msgs, nextpc, failpc) ==
  /\ evals' = Count(evals)
  /\ lastInvocation' = Invocation(heap, stageCalc[stage])
  /\ IF OracleRaises
       THEN /\ pc' = failpc
            /\ failed' = [failed EXCEPT ![stage] = TRUE]
            /\ UNCHANGED <<atoms, nsteps, heap, files, out, completed, lastWrite>>
       ELSE /\ heap' = Evaluate(heap, stageCalc[stage], atoms)
            /\ lastWrite' = [lastWrite EXCEPT ![stage] = Energy(atoms)]
            /\ files' = [files EXCEPT ![opt] = WriteSnapshot(@, atoms)]
            /\ IF Converged(atoms, fmax) \/ (steps >= 0 /\ nsteps >= steps)
                 THEN /\ completed' = [completed EXCEPT ![stage] = TRUE]
                      /\ out' = out \o msgs
                      /\ pc' = nextpc
                      /\ UNCHANGED <<atoms, nsteps>>
                 ELSE /\ atoms' = IF relaxes THEN atoms - 1 ELSE atoms
                      /\ nsteps' = Count(nsteps)
                      /\ UNCHANGED <<completed, out, pc>>
            /\ UNCHANGED failed
  /\ UNCHANGED <<entry, argv, N_IMAGES, stageCalc, mlneb, relaxes, failAt,
                 invoked, started>>

\* optimize_endpoints() is called (by a user of the module).
CallOptimizeEndpoints ==
  /\ entry = "optimize_endpoints"
  /\ pc = "start"
  /\ invoked' = [invoked EXCEPT !["optimize_endpoints"] = @ + 1]
  /\ out' = out \o <<"part3_banner", "initial_start">>
  /\ pc' = "opt_initial_read"
  /\ UNCHANGED <<entry, argv, N_IMAGES, files, heap, stageCalc, atoms, nsteps,
                 mlneb, relaxes, failAt, evals, lastInvocation, started,
                 failed, completed, lastWrite>>

OptimizeInitialSetup ==
  /\ pc = "opt_initial_read"
  /\ OptimizeSetup("opt_initial", UNOPTIMIZED_INITIAL, OPTIMIZED_INITIAL,
                   "opt_initial_run")

OptimizeInitialRun_StepCap ==
  /\ pc = "opt_initial_run"
  /\ OptimizeRun("opt_initial", OPTIMIZED_INITIAL, OPTIMIZE_FMAX, 1,
                 <<"initial_done", "final_start">>, "opt_final_read", "unhandled")

OptimizeInitialRun_Swallow ==
  /\ pc = "opt_initial_run"
  /\ OptimizeRun("opt_initial", OPTIMIZED_INITIAL, OPTIMIZE_FMAX, -1,
                 <<"initial_done", "final_start">>, "opt_final_read", "opt_final_read")

OptimizeInitialRun ==
  /\ pc = "opt_initial_run"
  /\ OptimizeRun("opt_initial", OPTIMIZED_INITIAL, OPTIMIZE_FMAX, -1,
                 <<"initial_done", "final_start">>, "opt_final_read", "unhandled")

OptimizeFinalSetup ==
  /\ pc = "opt_final_read"
  /\ OptimizeSetup("opt_final", UNOPTIMIZED_FINAL, OPTIMIZED_FINAL,
                   "opt_final_run")

OptimizeFinalRun ==
  /\ pc = "opt_final_run"
  /\ OptimizeRun("opt_final", OPTIMIZED_FINAL, OPTIMIZE_FMAX, -1,
                 <<"final_done", "part3_end">>, "done", "unhandled")

\* -------------------------------------------- Part 4: run_main_mlneb
\* The Pathway: the two endpoints around n_images intermediate images.
Pathway(m) ==
  <<m.initial>> \o [i \in 1..m.n_images |-> m.image] \o <<m.final>>

\* MLNEB(start=, end=, ase_calc=copy.deepcopy(ase_calculator), n_images=, k=):
\* the argument copy is made first, then the constructor loads the two
\* endpoint files and interpolates the images between them.
MlnebInit(nimg) ==
  /\ started' = [started EXCEPT !["neb"] = @ + 1]
  /\ heap' = deepcopy(heap, ASE_CALCULATOR)
  /\ stageCalc' = [stageCalc EXCEPT !["neb"] = Len(heap.calc) + 1]
  /\ IF files[OPTIMIZED_INITIAL] = <<>> \/ files[OPTIMIZED_FINAL] = <<>>
       THEN /\ pc' = "unhandled"
            /\ failed' = [failed EXCEPT !["neb"] = TRUE]
            /\ UNCHANGED mlneb
       ELSE /\ mlneb' = [start    |-> OPTIMIZED_INITIAL,
                         end      |-> OPTIMIZED_FINAL,
                         n_images |-> nimg,
                         k        |-> K_SPRING,
                         initial  |-> Last(files[OPTIMIZED_INITIAL]),
                         final    |-> Last(files[OPTIMIZED_FINAL]),
                         image    |-> Min(MaxForce,
                                          Max(Last(files[OPTIMIZED_INITIAL]),
                                              Last(files[OPTIMIZED_FINAL])) + 1)]
            /\ pc' = "neb_run"
            /\ UNCHANGED failed
  /\ UNCHANGED <<entry, argv, N_IMAGES, files, atoms, nsteps, relaxes, failAt,
                 evals, lastInvocation, out, invoked, completed, lastWrite>>

RunMainMlnebInit_WithEndpoints ==
  /\ pc = "neb_init"
  /\ MlnebInit(N_IMAGES + 2)

RunMainMlnebInit ==
  /\ pc = "neb_init"
  /\ MlnebInit(N_IMAGES)

\* One iteration of mlneb.run(fmax=NEB_FMAX, trajectory=TRAJECTORY_FILE):
\* an Oracle evaluation, then either the converged Pathway is written to
\* the trajectory or the images move on.
RunMainMlnebRun ==
  /\ pc = "neb_run"
  /\ evals' = Count(evals)
  /\ lastInvocation' = Invocation(heap, stageCalc["neb"])
  /\ IF OracleRaises
       THEN /\ pc' = "unhandled"
            /\ failed' = [failed EXCEPT !["neb"] = TRUE]
            /\ UNCHANGED <<heap, mlneb, files, out, completed, lastWrite>>
       ELSE /\ heap' = Evaluate(heap, stageCalc["neb"], mlneb.image)
            /\ lastWrite' = [lastWrite EXCEPT !["neb"] = Energy(mlneb.image)]
            /\ IF Converged(mlneb.image, NEB_FMAX)
                 THEN /\ files' = [files EXCEPT ![TRAJECTORY_FILE] = Pathway(mlneb)]
                      /\ completed' = [completed EXCEPT !["neb"] = TRUE]
                      /\ out' = Append(out, "mlneb_done")
                      /\ pc' = "done"
                      /\ UNCHANGED mlneb
                 ELSE /\ mlneb' = [mlneb EXCEPT !.image = IF relaxes THEN @ - 1 ELSE @]
                      /\ UNCHANGED <<files, completed, out, pc>>
            /\ UNCHANGED failed
  /\ UNCHANGED <<entry, argv, N_IMAGES, stageCalc, atoms, nsteps, relaxes,
                 failAt, invoked, started>>

\* ------------------------------------- Part 5: run_single_point_test
\* The body of the try block; catch says whether `except Exception` is there.
SinglePointTest(catch) ==
  /\ started' = [started EXCEPT !["test"] = @ + 1]
  /\ IF files[UNOPTIMIZED_INITIAL] = <<>>
       THEN /\ failed' = [failed EXCEPT !["test"] = TRUE]
            /\ out' = IF catch THEN out \o <<"test_failed", "test_hint">> ELSE out
            /\ pc' = IF catch THEN "done" ELSE "unhandled"
            /\ UNCHANGED <<heap, stageCalc, evals, lastInvocation, completed, lastWrite>>
       ELSE /\ stageCalc' = [stageCalc EXCEPT !["test"] = Len(heap.calc) + 1]
            /\ evals' = Count(evals)
            /\ lastInvocation' =
                 Invocation(deepcopy(heap, ASE_CALCULATOR), Len(heap.calc) + 1)
            /\ IF OracleRaises
                 THEN /\ heap' = deepcopy(heap, ASE_CALCULATOR)
                      /\ failed' = [failed EXCEPT !["test"] = TRUE]
                      /\ out' = IF catch THEN out \o <<"test_failed", "test_hint">>
                                ELSE out
                      /\ pc' = IF catch THEN "done" ELSE "unhandled"
                      /\ UNCHANGED <<completed, lastWrite>>
                 ELSE /\ heap' = Evaluate(deepcopy(heap, ASE_CALCULATOR),
                                          Len(heap.calc) + 1,
                                          Last(files[UNOPTIMIZED_INITIAL]))
                      /\ lastWrite' = [lastWrite EXCEPT !["test"] =
                                         Energy(Last(files[UNOPTIMIZED_INITIAL]))]
                      /\ completed' = [completed EXCEPT !["test"] = TRUE]
                      /\ out' = Append(out, "test_ok")
                      /\ pc' = "done"
                      /\ UNCHANGED failed
  /\ UNCHANGED <<entry, argv, N_IMAGES, files, atoms, nsteps, mlneb, relaxes,
                 failAt, invoked>>

RunSinglePointTest_NoCatch ==
  /\ pc = "test"
  /\ SinglePointTest(FALSE)

RunSinglePointTest ==
  /\ pc = "test"
  /\ SinglePointTest(TRUE)

\* ------------------------------------------------ the __main__ block
\* len(sys.argv) > 1 and sys.argv[1].lower() == 'test'
IsTestMode == Len(argv) > 1 /\ Lower(argv[2]) = ArgTest

\* if <test>: run_single_point_test()  else: <the default branch>
Dispatch(test, fn, msgs, target) ==
  /\ entry = "__main__"
  /\ pc = "start"
  /\ IF test
       THEN /\ invoked' = [invoked EXCEPT !["run_single_point_test"] = @ + 1]
            /\ out' = Append(out, "test_start")
            /\ pc' = "test"
       ELSE /\ invoked' = [invoked EXCEPT ![fn] = @ + 1]
            /\ out' = out \o msgs
            /\ pc' = target
  /\ UNCHANGED <<entry, argv, N_IMAGES, files, heap, stageCalc, atoms, nsteps,
                 mlneb, relaxes, failAt, evals, lastInvocation, started,
                 failed, completed, lastWrite>>

Main_SecondArgument ==
  Dispatch(Len(argv) > 2 /\ Lower(argv[3]) = ArgTest,
           "run_main_mlneb", <<"part4_banner">>, "neb_init")

Main_OptimizeFirst ==
  Dispatch(IsTestMode, "optimize_endpoints",
           <<"part3_banner", "initial_start">>, "opt_initial_read")

Main ==
  Dispatch(IsTestMode, "run_main_mlneb", <<"part4_banner">>, "neb_init")

Next ==
  \/ Main
  \/ CallOptimizeEndpoints
  \/ OptimizeInitialSetup
  \/ OptimizeInitialRun
  \/ OptimizeFinalSetup
  \/ OptimizeFinalRun
  \/ RunMainMlnebInit
  \/ RunMainMlnebRun
  \/ RunSinglePointTest

Spec == Init /\ [][Next]_vars

\* The interpreter keeps executing the one thread of control.
FairSpec == Spec /\ WF_vars(Next)

TypeOK ==
  /\ pc \in {"start", "opt_initial_read", "opt_initial_run", "opt_final_read",
             "opt_final_run", "neb_init", "neb_run", "test", "done", "unhandled"}
  /\ atoms \in Forces
  /\ evals \in 0..MaxEvals

Range(q) == {q[i] : i \in 1..Len(q)}

\* ===================================================================
\* Properties
\* ===================================================================

\* C1: in a run whose first command-line argument is 'test', neither
\* optimize_endpoints nor run_main_mlneb is invoked, none of their stages
\* starts, and at most one Oracle evaluation is requested.
C1_TestModeSingleEvaluation ==
  (entry = "__main__" /\ Len(argv) > 1 /\ argv[2] = ArgTest)
    => /\ invoked["optimize_endpoints"] = 0
       /\ invoked["run_main_mlneb"] = 0
       /\ started["opt_initial"] = 0
       /\ started["opt_final"] = 0
       /\ started["neb"] = 0
       /\ evals <= 1

C1_Witness ==
  /\ entry = "__main__" /\ Len(argv) > 1 /\ argv[2] = ArgTest
  /\ pc = "done"
  /\ invoked["run_single_point_test"] = 1
  /\ evals = 1

\* C2 (as claimed): in the default mode, whatever exception a stage raises
\* (a missing trajectory file included) is caught by the driver, which
\* returns normally: no exception is left unhandled.
C2_DriverCatchesEverything ==
  (entry = "__main__" /\ ~IsTestMode) => pc # "unhandled"

C4_DeepCopyIsolation ==
  /\ heap.calc[ASE_CALCULATOR] = InitHeap.calc[1]
  /\ heap.input[1] = InitHeap.input[1]
  /\ heap.results[1] = InitHeap.results[1]
  /\ \A s \in Stages :
       stageCalc[s] # 0 =>
         /\ stageCalc[s] # ASE_CALCULATOR
         /\ heap.calc[stageCalc[s]].input_data # 1
         /\ heap.calc[stageCalc[s]].results # 1
         /\ heap.input[heap.calc[stageCalc[s]].input_data] = InitHeap.input[1]
         /\ heap.results[heap.calc[stageCalc[s]].results].energy = lastWrite[s]
         /\ \A t \in Stages \ {s} :
              stageCalc[t] # 0 =>
                /\ stageCalc[t] # stageCalc[s]
                /\ heap.calc[stageCalc[t]].input_data
                     # heap.calc[stageCalc[s]].input_data
                /\ heap.calc[stageCalc[t]].results
                     # heap.calc[stageCalc[s]].results

C4_Witness ==
  /\ lastWrite["opt_initial"] # 0
  /\ lastWrite["opt_final"] # 0
  /\ lastWrite["opt_initial"] # lastWrite["opt_final"]

\* C5: each of the stages initial optimization, final optimization and
\* Pathway Solver starts at most once; once one of them has failed the run
\* is over (no later stage starts) and no success is reported.
C5_NoRetryFailureAborts ==
  /\ \A s \in {"opt_initial", "opt_final", "neb"} : started[s] <= 1
  /\ (\E s \in {"opt_initial", "opt_final", "neb"} : failed[s])
       => /\ pc = "unhandled"
          /\ "mlneb_done" \notin Range(out)
          /\ "part3_end" \notin Range(out)
  /\ failed["opt_initial"]
       => started["opt_final"] = 0 /\ started["neb"] = 0
            /\ "initial_done" \notin Range(out)
  /\ failed["opt_final"]
       => started["neb"] = 0 /\ "final_done" \notin Range(out)

C5_Witness ==
  /\ completed["opt_initial"]
  /\ failed["opt_final"]
  /\ evals >= 2

C6_SolverStepFrame ==
  pc \in {"neb_init", "neb_run"}
    => /\ files'["initial.traj"] = files["initial.traj"]
       /\ files'["final.traj"] = files["final.traj"]
       /\ \A f \in DOMAIN files :
            f # "mlneb_final.traj" => files'[f] = files[f]
       /\ (pc' \in {"neb_run", "done"}
             => (mlneb'.n_images = N_IMAGES /\ mlneb'.k = K_SPRING))

\* C6: every step of the Pathway Solver stage leaves initial.traj and
\* final.traj as they are and writes no file but mlneb_final.traj, and the
\* solver's image count and spring constant stay the configured ones.
C6_SolverFrame == [][C6_SolverStepFrame]_vars

C6_Witness ==
  /\ completed["neb"]
  /\ files["mlneb_final.traj"] # <<>>
  /\ files["initial.traj"] # <<>>
  /\ evals >= 2

StuckInInitial ==
  pc = "opt_initial_run" /\ ~relaxes /\ atoms > OPTIMIZE_FMAX

\* C7: an endpoint optimization finishes only with a force within fmax;
\* with an Oracle that lowers the force and never raises it finishes; with
\* an Oracle whose force stays above fmax the final-endpoint stage and the
\* solver never start, and unless the Oracle raises the stage never ends.
C7_NoStepCap ==
  /\ [](completed["opt_initial"]
          => Last(files[OPTIMIZED_INITIAL]) <= OPTIMIZE_FMAX)
  /\ [](completed["opt_final"]
          => Last(files[OPTIMIZED_FINAL]) <= OPTIMIZE_FMAX)
  /\ ((pc = "opt_initial_run" /\ relaxes /\ failAt = -1)
        ~> completed["opt_initial"])
  /\ [](StuckInInitial
          => [](started["opt_final"] = 0 /\ started["neb"] = 0
                  /\ ~completed["opt_initial"]))
  /\ [](StuckInInitial /\ failAt = -1 => [](pc = "opt_initial_run"))

C7_Witness ==
  /\ StuckInInitial
  /\ failAt = -1
  /\ nsteps >= 3

\* C8 (as claimed): the command handed to the backend reflects the core
\* count and the pseudopotential directory of the configuration.
C8_CommandReflectsPseudoDir ==
  lastInvocation # NoInvocation
    => /\ \E i \in 1..(Len(lastInvocation.command) - 1) :
            lastInvocation.command[i] = "-np"
              /\ lastInvocation.command[i + 1] = "12"
       /\ lastInvocation.pseudo_dir \in Range(lastInvocation.command)

\* C8 (amended): every evaluation of every stage hands the backend the same
\* fixed command, with the core count 12 in it and without the
\* pseudopotential directory, which travels in input_data instead.
C8_CommandFixed ==
  lastInvocation # NoInvocation
    => /\ lastInvocation.command =
            <<"mpirun", "-np", "12", "pw.x", "-in", "PREFIX.pwi", ">", "PREFIX.pwo">>
       /\ lastInvocation.pseudo_dir = "/root/pseudo/"
       /\ lastInvocation.pseudo_dir \notin Range(lastInvocation.command)

C8_Witness ==
  /\ lastInvocation # NoInvocation
  /\ completed["opt_initial"]
  /\ completed["opt_final"]

\* C9: when the Pathway Solver succeeds, the trajectory it wrote holds
\* exactly N_IMAGES + 2 Structures, whatever the image count is.
C9_PathwayLength ==
  completed["neb"] => Len(files[TRAJECTORY_FILE]) = N_IMAGES + 2

C9_Witness ==
  /\ completed["neb"]
  /\ N_IMAGES >= 2
  /\ Len(files[TRAJECTORY_FILE]) >= 4

C10_TestModeState ==
  (entry = "__main__" /\ IsTestMode)
    => /\ pc # "unhandled"
       /\ failed["test"]
            => /\ pc = "done"
               /\ "test_failed" \in Range(out)
               /\ "test_hint" \in Range(out)
               /\ "test_ok" \notin Range(out)

C10_TestModeStep ==
  (entry = "__main__" /\ IsTestMode) => files' = files

\* C10: in test mode an exception raised while reading the structure or
\* evaluating the energy is caught in run_single_point_test: the failure
\* message and the hint are printed, the success message is not, no file is
\* written and the run ends normally.
C10_TestModeCatches ==
  []C10_TestModeState /\ [][C10_TestModeStep]_vars

C10_Witness ==
  /\ entry = "__main__" /\ IsTestMode
  /\ failed["test"]
  /\ evals = 1
  /\ pc = "done"

====
